---- MODULE Spec2Model ----
(***************************************************************************)
(* State-machine model of redgifs_content_grabber.py: the partitioning of  *)
(* captured_links into batches (get_captured_links_batches), the worker    *)
(* threads of save_files, save_file with its duplicate check and buffered  *)
(* file write, the retry loop of safely_request_content and the summary    *)
(* read by main.                                                           *)
(*                                                                         *)
(* Strings are sequences of one-character strings.  A byte payload is a    *)
(* sequence of blocks, each block tagged with the worker whose fetch       *)
(* produced it, so that the content of a file tells whose data it holds.   *)
(***************************************************************************)
EXTENDS Integers, Sequences, FiniteSets, TLC

\* ------------------------------------------------------------------ bounds

\* Most links in captured_links in a run of the whole pipeline.
MaxLinks == 2

\* Most links in captured_links in a run of the partitioner alone.
MaxPartLinks == 23

\* set.pop() returns an arbitrary element.  The partitioner never inspects
\* the element, so for sets larger than this the order is fixed to one
\* representative; sets up to this size are popped in every order.
MaxArbitraryPop == 3

\* Longest payload a fetch returns, in blocks.
MaxPayloadLen == 2

\* ------------------------------------------------------- program constants

THREADS_TO_USE == 10

MAX_REQUEST_RETRIES == 5

\* io.DEFAULT_BUFFER_SIZE in blocks: open(file_path, "wb") returns a
\* BufferedWriter; a write shorter than its buffer stays in the buffer until
\* the file is flushed or closed, a longer one goes to the file at once.
BUFFER_SIZE == 2

\* Worker counts the model runs with: the claims quantify over the worker
\* count, so it is drawn at Init; the shipped value is among them.
ThreadCounts == {1, 2, THREADS_TO_USE}

VARIABLES
    mode,                       \* args.mode
    threads_to_use,             \* the worker count of this run
    captured_links,             \* the global set captured_links
    links0,                     \* history: captured_links when partitioning began
    inserted,                   \* history: the values passed to captured_links.add
    url_parts,                  \* history: the pieces a derived URL was built from
    file_path,                  \* link -> the file_path save_file derives from it
    true_url,                   \* raw link -> the URL its content is fetched from
    file_batch_size,            \* local of get_captured_links_batches
    batches,                    \* local of get_captured_links_batches / save_files
    cur,                        \* the batch the list comprehension is building
    k,                          \* iterations of range(file_batch_size) done
    mpc,                        \* position of the main thread
    jn,                         \* index of the thread main starts / joins next
    thr,                        \* the worker threads, one record each
    files,                      \* OUTPUT_DIR: file name -> content or NoFile
    downloaded_files_sizes_mb,  \* the global statistics list
    results,                    \* history: link -> what its save_file call did
    summary                     \* what main logged at the end

vars == <<mode, threads_to_use, captured_links, links0, inserted, url_parts, file_path, true_url,
          file_batch_size, batches,
          cur, k, mpc, jn, thr, files, downloaded_files_sizes_mb, results, summary>>

\* ---------------------------------------------------------------- strings

\* s.split(c)[-1]: the part of s after its last c (all of s when c is absent).
LastPiece(s, c) ==
    IF \E i \in 1..Len(s) : s[i] = c
    THEN LET j == CHOOSE i \in 1..Len(s) : s[i] = c /\ \A m \in (i+1)..Len(s) : s[m] # c
         IN  SubSeq(s, j + 1, Len(s))
    ELSE s

\* s.split(c)[0]: the part of s before its first c (all of s when c is absent).
FirstPiece(s, c) ==
    IF \E i \in 1..Len(s) : s[i] = c
    THEN LET j == CHOOSE i \in 1..Len(s) : s[i] = c /\ \A m \in 1..(i-1) : s[m] # c
         IN  SubSeq(s, 1, j - 1)
    ELSE s

\* whether pat occurs in s at position i
OccursAt(s, pat, i) ==
    /\ i + Len(pat) - 1 <= Len(s)
    /\ \A m \in 1..Len(pat) : s[i + m - 1] = pat[m]

\* pat in s
Contains(s, pat) == \E i \in 1..Len(s) : OccursAt(s, pat, i)

\* s.replace(pat, ""): every non-overlapping occurrence, left to right.
RECURSIVE Remove(_, _)
Remove(s, pat) ==
    IF s = <<>> THEN <<>>
    ELSE IF OccursAt(s, pat, 1) THEN Remove(SubSeq(s, Len(pat) + 1, Len(s)), pat)
    ELSE <<s[1]>> \o Remove(Tail(s), pat)

LowerChar(c) ==
    CASE c = "A" -> "a"
      [] c = "B" -> "b"
      [] OTHER -> c

\* s.lower()
Lower(s) == [i \in 1..Len(s) |-> LowerChar(s[i])]

SufMobile == <<"-", "m", "o", "b", "i", "l", "e">>
SufSilent == <<"-", "s", "i", "l", "e", "n", "t">>
SufLarge == <<"-", "l", "a", "r", "g", "e">>
ExtJpg == <<".", "j", "p", "g">>
ExtMp4 == <<".", "m", "p", "4">>
ApiPrefix == <<"h", "t", "t", "p", "s", ":", "/", "/", "a", "p", "i", ".",
               "r", "e", "d", "g", "i", "f", "s", ".", "c", "o", "m", "/",
               "v", "2", "/", "g", "i", "f", "s", "/">>
ApiFiles == <<"/", "f", "i", "l", "e", "s", "/">>

build_real_url(file_name) ==
    ApiPrefix \o Lower(file_name) \o ApiFiles \o file_name \o ExtMp4

extract_file_name(url) ==
    IF Contains(url, <<"/">>)
    THEN LET n1 == FirstPiece(LastPiece(url, "/"), "?")
             n2 == FirstPiece(n1, "#")
             n3 == Remove(n2, SufMobile)
             n4 == Remove(n3, SufSilent)
             n5 == Remove(n4, SufLarge)
         IN  FirstPiece(n5, ".")
    ELSE <<"E", "R", "R", "O", "R">>

\* save_file, lines 70-78: the name of the output file of a raw link
FileNameOf(input, m) ==
    LET file_name == IF m = "s" THEN input ELSE extract_file_name(input)
    IN  IF Contains(input, ExtJpg) THEN file_name \o ExtJpg ELSE file_name \o ExtMp4

\* save_file, lines 70-78: the URL the content is fetched from
TrueUrlOf(input, m) ==
    LET file_name == IF m = "s" THEN input ELSE extract_file_name(input)
    IN  IF Contains(input, ExtJpg) THEN input ELSE build_real_url(file_name)

\* ------------------------------------------------------------ partitioner

\* mutant: integer division, kept at least 1
CeilDiv_Floor(a, b) == IF a < b THEN 1 ELSE a \div b

\* mutant: one more than the integer quotient
CeilDiv_Plus(a, b) == a \div b + 1

\* math.ceil(a / b) for a >= 0, b >= 1
CeilDiv(a, b) == (a + b - 1) \div b

\* the elements set.pop() may return
PopChoices(S) ==
    IF Cardinality(S) <= MaxArbitraryPop THEN S ELSE {CHOOSE x \in S : TRUE}

\* mutant: a second element leaves the set with the one returned
Popped_Twice(S, x) == S \ ({x} \cup {CHOOSE y \in S : S = {x} \/ y # x})

\* the set after pop() returned x
Popped(S, x) == S \ {x}

RECURSIVE Flatten(_)
Flatten(bs) == IF bs = <<>> THEN <<>> ELSE Head(bs) \o Flatten(Tail(bs))

Range(s) == {s[i] : i \in 1..Len(s)}

NoWorkers == <<>>

\* line 32
PartitionBegin ==
    /\ mpc = "partition"
    /\ file_batch_size' = CeilDiv(Cardinality(captured_links), threads_to_use)
    /\ batches' = <<>>
    /\ mpc' = "while"
    /\ UNCHANGED <<mode, threads_to_use, captured_links, links0, inserted, url_parts,
                   file_path, true_url, cur, k, jn, thr,
                   files, downloaded_files_sizes_mb, results, summary>>

\* line 35, the loop test: another batch, or return batches
PartitionTest ==
    /\ mpc = "while"
    /\ IF Cardinality(captured_links) > 0
       THEN /\ cur' = <<>>
            /\ k' = 0
            /\ mpc' = "comp"
       ELSE /\ mpc' = "spawn"
            /\ UNCHANGED <<cur, k>>
    /\ UNCHANGED <<mode, threads_to_use, captured_links, links0, inserted, url_parts,
                   file_path, true_url, file_batch_size,
                   batches, jn, thr, files, downloaded_files_sizes_mb, results, summary>>

\* line 36, one iteration of the comprehension over range(file_batch_size)
PartitionPop ==
    /\ mpc = "comp"
    /\ k < file_batch_size
    /\ k' = k + 1
    /\ IF Cardinality(captured_links) > 0
       THEN \E x \in PopChoices(captured_links) :
                /\ captured_links' = Popped(captured_links, x)
                /\ cur' = Append(cur, x)
       ELSE UNCHANGED <<captured_links, cur>>
    /\ UNCHANGED <<mode, threads_to_use, links0, inserted, url_parts,
                   file_path, true_url, file_batch_size, batches, mpc, jn,
                   thr, files, downloaded_files_sizes_mb, results, summary>>

\* line 36, batches.append of the finished comprehension
PartitionAppend ==
    /\ mpc = "comp"
    /\ k >= file_batch_size
    /\ batches' = Append(batches, cur)
    /\ cur' = <<>>
    /\ mpc' = "while"
    /\ UNCHANGED <<mode, threads_to_use, captured_links, links0, inserted, url_parts,
                   file_path, true_url, file_batch_size, k,
                   jn, thr, files, downloaded_files_sizes_mb, results, summary>>

\* get_captured_links_batches called on a set of n links and any worker count
InitPartition ==
    /\ mode = "v"
    /\ threads_to_use \in 1..THREADS_TO_USE
    /\ \E n \in 0..MaxPartLinks : captured_links = 1..n
    /\ links0 = captured_links
    /\ inserted = <<>>
    /\ url_parts = <<>>
    /\ file_path = <<>>
    /\ true_url = <<>>
    /\ file_batch_size = 0
    /\ batches = <<>>
    /\ cur = <<>>
    /\ k = 0
    /\ mpc = "partition"
    /\ jn = 1
    /\ thr = NoWorkers
    /\ files = <<>>
    /\ downloaded_files_sizes_mb = <<>>
    /\ results = <<>>
    /\ summary = <<>>

NextPartition ==
    \/ PartitionBegin
    \/ PartitionTest
    \/ PartitionPop
    \/ PartitionAppend

SpecPartition == InitPartition /\ [][NextPartition]_vars

\* ------------------------------------------------------------- file system

\* a path that does not exist / an existing file holding data
NoFile == [exists |-> FALSE, data |-> <<>>]
FileWith(d) == [exists |-> TRUE, data |-> d]

\* a file left in OUTPUT_DIR by an earlier run (block 0 is old data)
OldFile == FileWith(<<0, 0>>)

\* mutant: the check never reports a duplicate
is_duplicate_Never(f) == FALSE

\* os.path.exists
is_duplicate(f) == f.exists

\* open(file_path, "wb"): the file is created, or truncated when it exists
Opened(f) == FileWith(<<>>)

\* data written at offset 0 of a file opened earlier: the bytes beyond the
\* written ones stay what they are now
WriteAt0(f, d) == FileWith(d \o SubSeq(f.data, Len(d) + 1, Len(f.data)))

\* os.path.getsize
getsize(f) == Len(f.data)

\* ---------------------------------------------------------------- content

\* content = "" (line 103), a str
StrEmpty == [kind |-> "str", data |-> <<>>]

\* requests.get(url).content, bytes: n blocks fetched by worker t
Bytes(t, n) == [kind |-> "bytes", data |-> [j \in 1..n |-> t]]

\* ---------------------------------------------------------------- workers

NewThread ==
    [st |-> "new", crashed |-> FALSE, idx |-> 1, pc |-> "call",
     content |-> StrEmpty, successful |-> FALSE, i |-> 0, requests |-> 0,
     exceptions |-> 0, buf |-> <<>>, is_successful |-> FALSE]

NoResult ==
    [called |-> FALSE, existed |-> FALSE, opened |-> FALSE, fetched |-> FALSE,
     exhausted |-> FALSE, oserr |-> "none", payload |-> StrEmpty, size |-> -1,
     ret |-> "none"]

Workers == DOMAIN thr

Running(t) == t \in Workers /\ thr[t].st = "run"

\* the link worker t is processing, its file_path (lines 70-80; a function of
\* the link and args.mode alone, held in the table file_path) and its history
\* record
Cur(t) == batches[t][thr[t].idx]
PathOf(t) == file_path[Cur(t)]
Res(t) == results[Cur(t)]

\* line 95: the except clause of save_file
Caught(exc) == exc = "OSError"

\* mutant: one iteration short
RetryRange_Short == MAX_REQUEST_RETRIES - 1

\* line 105: range(MAX_REQUEST_RETRIES)
RetryRange == MAX_REQUEST_RETRIES

\* mutant: the append overwrites the last entry (a lost update)
AppendSize_Overwrite(list, x) ==
    IF list = <<>> THEN <<x>> ELSE [list EXCEPT ![Len(list)] = x]

\* line 92: downloaded_files_sizes_mb.append (atomic under the interpreter lock)
AppendSize(list, x) == Append(list, x)

\* mutant: join returns as soon as the thread was started
Joined_Started(t) == thr[t].st # "new"

\* mutant: join never returns for a thread that ended with an exception
Joined_Clean(t) == thr[t].st = "dead" /\ ~thr[t].crashed

\* line 234: thread.join() returns once the thread has ended
Joined(t) == thr[t].st = "dead"

\* save_file returns is_successful to the comprehension of line 229, which
\* goes on to the next link of the batch
ReturnFrom(t, r) ==
    /\ thr' = [thr EXCEPT ![t] = [NewThread EXCEPT !.st = "run", !.idx = thr[t].idx + 1]]
    /\ results' = [results EXCEPT ![Cur(t)] =
                      [r EXCEPT !.ret = IF thr[t].is_successful THEN "true" ELSE "false"]]

\* an exception leaves save_file and the comprehension: the thread ends
Crash(t, r) ==
    /\ thr' = [thr EXCEPT ![t] = [NewThread EXCEPT !.st = "dead", !.crashed = TRUE,
                                                   !.idx = thr[t].idx]]
    /\ results' = [results EXCEPT ![Cur(t)] = [r EXCEPT !.ret = "raised"]]

\* exc raised inside the try block of lines 88-96
Raise(t, exc, r) == IF Caught(exc) THEN ReturnFrom(t, r) ELSE Crash(t, r)

\* lines 70-85: save_file is called on the next link and checks for a duplicate
Check(t) ==
    /\ Running(t)
    /\ thr[t].pc = "call"
    /\ thr[t].idx <= Len(batches[t])
    /\ LET r == [Res(t) EXCEPT !.called = TRUE, !.existed = files[PathOf(t)].exists]
       IN  IF is_duplicate(files[PathOf(t)])
           THEN ReturnFrom(t, r)
           ELSE /\ thr' = [thr EXCEPT ![t].pc = "open"]
                /\ results' = [results EXCEPT ![Cur(t)] = r]
    /\ UNCHANGED <<mode, threads_to_use, captured_links, links0, inserted, url_parts,
                   file_path, true_url, file_batch_size,
                   batches, cur, k, mpc, jn, files, downloaded_files_sizes_mb, summary>>

\* line 229: the comprehension is through the batch and the thread ends
Finish(t) ==
    /\ Running(t)
    /\ thr[t].pc = "call"
    /\ thr[t].idx > Len(batches[t])
    /\ thr' = [thr EXCEPT ![t].st = "dead"]
    /\ UNCHANGED <<mode, threads_to_use, captured_links, links0, inserted, url_parts,
                   file_path, true_url, file_batch_size,
                   batches, cur, k, mpc, jn, files, downloaded_files_sizes_mb,
                   results, summary>>

\* line 89: open(file_path, "wb")
Open(t) ==
    /\ Running(t)
    /\ thr[t].pc = "open"
    /\ \/ /\ files' = [files EXCEPT ![PathOf(t)] = Opened(@)]
          /\ thr' = [thr EXCEPT ![t].pc = "fetch"]
          /\ results' = [results EXCEPT ![Cur(t)].opened = TRUE]
       \/ /\ Raise(t, "OSError", [Res(t) EXCEPT !.oserr = "open"])
          /\ UNCHANGED files
    /\ UNCHANGED <<mode, threads_to_use, captured_links, links0, inserted, url_parts,
                   file_path, true_url, file_batch_size,
                   batches, cur, k, mpc, jn, downloaded_files_sizes_mb, summary>>

\* mutant: the loop never breaks
ShouldBreak_Never(t) == FALSE

\* lines 107-108: if successful: break
ShouldBreak(t) == thr[t].successful

\* lines 105-116: one iteration of the retry loop that calls requests.get
Attempt(t) ==
    /\ Running(t)
    /\ thr[t].pc = "fetch"
    /\ thr[t].i < RetryRange
    /\ ~ShouldBreak(t)
    /\ \/ \E n \in 0..MaxPayloadLen :
             thr' = [thr EXCEPT ![t].content = Bytes(t, n), ![t].successful = TRUE,
                                ![t].i = @ + 1, ![t].requests = @ + 1]
       \/ thr' = [thr EXCEPT ![t].i = @ + 1, ![t].requests = @ + 1,
                             ![t].exceptions = @ + 1]
    /\ results' = [results EXCEPT ![Cur(t)].fetched = TRUE]
    /\ UNCHANGED <<mode, threads_to_use, captured_links, links0, inserted, url_parts,
                   file_path, true_url, file_batch_size,
                   batches, cur, k, mpc, jn, files, downloaded_files_sizes_mb, summary>>

\* the loop of lines 105-116 is over: break, or the range is exhausted
LoopOver(t) == thr[t].pc = "fetch" /\ (ShouldBreak(t) \/ thr[t].i >= RetryRange)

\* lines 118 and 91: safely_request_content returns content, file.write(content)
Write(t) ==
    /\ Running(t)
    /\ LoopOver(t)
    /\ LET c == thr[t].content
           r == [Res(t) EXCEPT !.payload = c, !.exhausted = ~thr[t].successful]
       IN  IF c.kind # "bytes"
           THEN \* write() of a str to a binary file raises TypeError
                /\ Raise(t, "TypeError", r)
                /\ UNCHANGED files
           ELSE IF Len(c.data) < BUFFER_SIZE
           THEN \* kept in the buffer of the file object
                /\ thr' = [thr EXCEPT ![t].pc = "stat", ![t].buf = c.data]
                /\ results' = [results EXCEPT ![Cur(t)] = r]
                /\ UNCHANGED files
           ELSE \/ /\ files' = [files EXCEPT ![PathOf(t)] = WriteAt0(@, c.data)]
                   /\ thr' = [thr EXCEPT ![t].pc = "stat"]
                   /\ results' = [results EXCEPT ![Cur(t)] = r]
                \/ /\ Raise(t, "OSError", [r EXCEPT !.oserr = "write"])
                   /\ UNCHANGED files
    /\ UNCHANGED <<mode, threads_to_use, captured_links, links0, inserted, url_parts,
                   file_path, true_url, file_batch_size,
                   batches, cur, k, mpc, jn, downloaded_files_sizes_mb, summary>>

\* lines 92-93: the size of the file on disk is appended, is_successful = True
Stat(t) ==
    /\ Running(t)
    /\ thr[t].pc = "stat"
    /\ downloaded_files_sizes_mb' =
           AppendSize(downloaded_files_sizes_mb, getsize(files[PathOf(t)]))
    /\ thr' = [thr EXCEPT ![t].pc = "close", ![t].is_successful = TRUE]
    /\ results' = [results EXCEPT ![Cur(t)].size = getsize(files[PathOf(t)])]
    /\ UNCHANGED <<mode, threads_to_use, captured_links, links0, inserted, url_parts,
                   file_path, true_url, file_batch_size,
                   batches, cur, k, mpc, jn, files, summary>>

\* line 89, the end of the with block: the buffer is flushed, the file closed
Close(t) ==
    /\ Running(t)
    /\ thr[t].pc = "close"
    /\ IF thr[t].buf = <<>>
       THEN /\ ReturnFrom(t, Res(t))
            /\ UNCHANGED files
       ELSE \/ /\ files' = [files EXCEPT ![PathOf(t)] = WriteAt0(@, thr[t].buf)]
               /\ ReturnFrom(t, Res(t))
            \/ \* the flush fails: OSError out of the with block
               /\ Raise(t, "OSError", [Res(t) EXCEPT !.oserr = "close"])
               /\ UNCHANGED files
    /\ UNCHANGED <<mode, threads_to_use, captured_links, links0, inserted, url_parts,
                   file_path, true_url, file_batch_size,
                   batches, cur, k, mpc, jn, downloaded_files_sizes_mb, summary>>

WorkerStep(t) ==
    \/ Check(t)
    \/ Finish(t)
    \/ Open(t)
    \/ Attempt(t)
    \/ Write(t)
    \/ Stat(t)
    \/ Close(t)

\* ------------------------------------------------------------- dispatcher

RECURSIVE SumSeq(_)
SumSeq(s) == IF s = <<>> THEN 0 ELSE Head(s) + SumSeq(Tail(s))

\* lines 229-230: one Thread object per batch
Spawn ==
    /\ mpc = "spawn"
    /\ thr' = [t \in 1..Len(batches) |-> NewThread]
    /\ jn' = 1
    /\ mpc' = "start"
    /\ UNCHANGED <<mode, threads_to_use, captured_links, links0, inserted, url_parts,
                   file_path, true_url, file_batch_size,
                   batches, cur, k, files, downloaded_files_sizes_mb, results, summary>>

\* line 233: thread.start() for each thread in turn
Start ==
    /\ mpc = "start"
    /\ IF jn <= Len(thr)
       THEN /\ thr' = [thr EXCEPT ![jn].st = "run"]
            /\ jn' = jn + 1
            /\ mpc' = mpc
       ELSE /\ jn' = 1
            /\ mpc' = "join"
            /\ thr' = thr
    /\ UNCHANGED <<mode, threads_to_use, captured_links, links0, inserted, url_parts,
                   file_path, true_url, file_batch_size,
                   batches, cur, k, files, downloaded_files_sizes_mb, results, summary>>

\* line 234: thread.join() for each thread in turn, then save_files returns
Join ==
    /\ mpc = "join"
    /\ IF jn <= Len(thr)
       THEN /\ Joined(jn)
            /\ jn' = jn + 1
            /\ mpc' = mpc
       ELSE /\ jn' = jn
            /\ mpc' = "summary"
    /\ UNCHANGED <<mode, threads_to_use, captured_links, links0, inserted, url_parts,
                   file_path, true_url, file_batch_size,
                   batches, cur, k, thr, files, downloaded_files_sizes_mb, results,
                   summary>>

\* lines 223-225: main reads the statistics and logs the summary
Summary ==
    /\ mpc = "summary"
    /\ summary' = <<[count |-> Len(downloaded_files_sizes_mb),
                     total |-> SumSeq(downloaded_files_sizes_mb)]>>
    /\ mpc' = "done"
    /\ UNCHANGED <<mode, threads_to_use, captured_links, links0, inserted, url_parts,
                   file_path, true_url, file_batch_size,
                   batches, cur, k, jn, thr, files, downloaded_files_sizes_mb, results>>

MainStep ==
    \/ PartitionBegin
    \/ PartitionTest
    \/ PartitionPop
    \/ PartitionAppend
    \/ Spawn
    \/ Start
    \/ Join
    \/ Summary

\* ------------------------------------------------------------------ runs

LinkAMobile == <<"t", "/", "A">> \o SufMobile \o ExtJpg
LinkALarge == <<"t", "/", "A">> \o SufLarge \o ExtJpg \o <<"?", "w">>
LinkB == <<"t", "/", "B">> \o SufSilent \o ExtMp4 \o <<"#", "f">>

\* the links the discovery source may put into captured_links
LinkUniverse(m) ==
    IF m = "s" THEN {<<"A">>, <<"B">>} ELSE {LinkAMobile, LinkALarge, LinkB}

FileNames(m) == {FileNameOf(l, m) : l \in LinkUniverse(m)}

Init ==
    /\ mode \in {"v", "s"}
    /\ threads_to_use \in ThreadCounts
    /\ captured_links \in {S \in SUBSET LinkUniverse(mode) : Cardinality(S) <= MaxLinks}
    /\ links0 = captured_links
    /\ inserted = <<>>
    /\ url_parts = <<>>
    /\ file_path = [l \in captured_links |-> FileNameOf(l, mode)]
    /\ true_url = [l \in captured_links |-> TrueUrlOf(l, mode)]
    /\ file_batch_size = 0
    /\ batches = <<>>
    /\ cur = <<>>
    /\ k = 0
    /\ mpc = "partition"
    /\ jn = 1
    /\ thr = NoWorkers
    /\ files \in [FileNames(mode) -> {NoFile, OldFile}]
    /\ downloaded_files_sizes_mb = <<>>
    /\ results = [l \in captured_links |-> NoResult]
    /\ summary = <<>>

Next ==
    \/ MainStep
    \/ \E t \in 1..MaxLinks : WorkerStep(t)

Spec == Init /\ [][Next]_vars

\* the scheduler does not stop while some thread can take a step
FairSpec == Spec /\ WF_vars(Next)

\* get_captured_links_batches on any set and worker count, followed by the
\* creation of the threads in save_files
NextSpawn ==
    \/ NextPartition
    \/ Spawn

SpecSpawn == InitPartition /\ [][NextSpawn]_vars

\* ---------------------------------------------------------- link discovery

\* Most values the discovery source passes to captured_links in one run.
MaxInserts == 4

\* mutant: adding a value that is present removes it
SetAdd_Toggle(S, l) == IF l \in S THEN S \ {l} ELSE S \cup {l}

\* captured_links.add(l)
SetAdd(S, l) == S \cup {l}

\* captured_links.update(list)
RECURSIVE SetUpdate(_, _)
SetUpdate(S, list) ==
    IF list = <<>> THEN S ELSE SetUpdate(SetAdd(S, Head(list)), Tail(list))

\* lines 151 and 199: the scrape and the text-file resolver add one link
AddLink ==
    /\ mpc = "discover"
    /\ mode # "s"
    /\ Len(inserted) < MaxInserts
    /\ \E l \in LinkUniverse(mode) :
           /\ captured_links' = SetAdd(captured_links, l)
           /\ inserted' = Append(inserted, l)
    /\ UNCHANGED <<mode, threads_to_use, links0, url_parts, file_path, true_url, file_batch_size,
                   batches, cur, k, mpc, jn, thr, files, downloaded_files_sizes_mb,
                   results, summary>>

\* line 181: the cues of the files of OUTPUT_DIR are added in one update
UpdateLinks ==
    /\ mpc = "discover"
    /\ mode = "s"
    /\ inserted = <<>>
    /\ \E n \in 1..MaxInserts : \E cues \in [1..n -> LinkUniverse(mode)] :
           /\ captured_links' = SetUpdate(captured_links, cues)
           /\ inserted' = cues
    /\ UNCHANGED <<mode, threads_to_use, links0, url_parts, file_path, true_url, file_batch_size,
                   batches, cur, k, mpc, jn, thr, files, downloaded_files_sizes_mb,
                   results, summary>>

\* captured_links = set() (line 26) before the discovery source runs
InitDiscover ==
    /\ mode \in {"v", "f", "s"}
    /\ threads_to_use = THREADS_TO_USE
    /\ captured_links = {}
    /\ links0 = {}
    /\ inserted = <<>>
    /\ url_parts = <<>>
    /\ file_path = <<>>
    /\ true_url = <<>>
    /\ file_batch_size = 0
    /\ batches = <<>>
    /\ cur = <<>>
    /\ k = 0
    /\ mpc = "discover"
    /\ jn = 1
    /\ thr = NoWorkers
    /\ files = <<>>
    /\ downloaded_files_sizes_mb = <<>>
    /\ results = <<>>
    /\ summary = <<>>

NextDiscover ==
    \/ AddLink
    \/ UpdateLinks

SpecDiscover == InitDiscover /\ [][NextDiscover]_vars

\* ------------------------------------------------------------ file naming

Ids == {<<"A">>, <<"B", "a">>}
Markers == {<<>>, SufMobile, SufSilent, SufLarge}
Extensions == {<<>>, ExtJpg, ExtMp4}
Tails == {<<>>, <<"?", "w">>, <<"#", "f">>, <<"?", "u", "=", "a", "/", "b">>}

\* line 181: the cue of a file of OUTPUT_DIR is its name up to the first "-"
Cue(file_name) == FirstPiece(file_name, "-")

\* the raw link the discovery source yields for the pieces p
RawOf(p, m) ==
    IF m = "s"
    THEN Cue(p.id \o p.marker \o p.ext)
    ELSE <<"t", "/">> \o p.id \o p.marker \o p.ext \o p.tail

\* lines 70-80: save_file derives the output file and the URL to fetch
DeriveName ==
    /\ mpc = "name"
    /\ file_path = <<>>
    /\ file_path' = [l \in captured_links |-> FileNameOf(l, mode)]
    /\ true_url' = [l \in captured_links |-> TrueUrlOf(l, mode)]
    /\ UNCHANGED <<mode, threads_to_use, captured_links, links0, inserted, url_parts,
                   file_batch_size, batches, cur, k, mpc, jn, thr, files,
                   downloaded_files_sizes_mb, results, summary>>

InitName ==
    /\ mode \in {"v", "f", "s"}
    /\ threads_to_use = THREADS_TO_USE
    /\ url_parts \in [id : Ids, marker : Markers, ext : Extensions,
                      tail : IF mode = "s" THEN {<<>>} ELSE Tails]
    /\ captured_links = {RawOf(url_parts, mode)}
    /\ links0 = {}
    /\ inserted = <<>>
    /\ file_path = <<>>
    /\ true_url = <<>>
    /\ file_batch_size = 0
    /\ batches = <<>>
    /\ cur = <<>>
    /\ k = 0
    /\ mpc = "name"
    /\ jn = 1
    /\ thr = NoWorkers
    /\ files = <<>>
    /\ downloaded_files_sizes_mb = <<>>
    /\ results = <<>>
    /\ summary = <<>>

NextName == DeriveName

SpecName == InitName /\ [][NextName]_vars

\* ----------------------------------------------------------------- claims

PairwiseDisjoint(bs) ==
    \A a, b \in 1..Len(bs) : a # b => Range(bs[a]) \cap Range(bs[b]) = {}

\* the links whose save_file call returned True
Succeeded == {l \in DOMAIN results : results[l].ret = "true"}

RECURSIVE SumSizes(_)
SumSizes(S) ==
    IF S = {} THEN 0
    ELSE LET l == CHOOSE x \in S : TRUE IN results[l].size + SumSizes(S \ {l})

\* C1: when get_captured_links_batches returns for a non-empty set, the
\* batches are pairwise disjoint, hold as many elements as the set held, their
\* union is the set, and captured_links is empty.
C1_PartitionComplete ==
    (mpc = "spawn" /\ links0 # {}) =>
        /\ PairwiseDisjoint(batches)
        /\ Len(Flatten(batches)) = Cardinality(links0)
        /\ Range(Flatten(batches)) = links0
        /\ captured_links = {}

C1_Witness ==
    /\ mpc = "spawn"
    /\ Len(batches) >= 2
    /\ Len(batches[1]) >= 2
    /\ Cardinality(links0) >= 5

\* C2 as stated: 23 links and 10 workers give 10 batches, 3 of size 3 and 7
\* of size 2, disjoint, with union the 23 links.
C2_TenBatches ==
    (mpc = "spawn" /\ Cardinality(links0) = 23 /\ threads_to_use = THREADS_TO_USE) =>
        /\ Len(batches) = 10
        /\ Cardinality({b \in 1..Len(batches) : Len(batches[b]) = 3}) = 3
        /\ Cardinality({b \in 1..Len(batches) : Len(batches[b]) = 2}) = 7
        /\ PairwiseDisjoint(batches)
        /\ Range(Flatten(batches)) = links0

\* C2 amended: 23 links and 10 workers give 8 batches, the first 7 of size 3
\* and the last of size 2, disjoint, with union the 23 links.
C2_EightBatches ==
    (mpc = "spawn" /\ Cardinality(links0) = 23 /\ threads_to_use = THREADS_TO_USE) =>
        /\ Len(batches) = 8
        /\ \A b \in 1..7 : Len(batches[b]) = 3
        /\ Len(batches[8]) = 2
        /\ PairwiseDisjoint(batches)
        /\ Range(Flatten(batches)) = links0

C2_Witness ==
    /\ mpc = "spawn"
    /\ Cardinality(links0) = 23
    /\ threads_to_use = THREADS_TO_USE
    /\ Len(batches) = 8

\* C3: safely_request_content never makes more than MAX_REQUEST_RETRIES
\* requests, and when every request raised it returns, without raising, after
\* exactly MAX_REQUEST_RETRIES requests with the empty content.
C3_RetryBound ==
    \A t \in Workers :
        /\ thr[t].requests <= MAX_REQUEST_RETRIES
        /\ (LoopOver(t) /\ thr[t].exceptions = thr[t].requests) =>
               /\ thr[t].requests = MAX_REQUEST_RETRIES
               /\ thr[t].content = StrEmpty
               /\ thr[t].st = "run"

C3_Witness ==
    \E t \in Workers : LoopOver(t) /\ thr[t].exceptions = MAX_REQUEST_RETRIES

\* C4: a save_file call whose fetch exhausted the retry budget returns False
\* (it does not raise) and appends nothing to the statistics.
C4_ExhaustionIsFailedDownload ==
    \A l \in DOMAIN results :
        results[l].exhausted => results[l].ret = "false" /\ results[l].size = -1

\* C5: a save_file call that found its output path existing makes no request,
\* does not open the file, appends nothing and returns False.
C5_DuplicateSkip ==
    \A l \in DOMAIN results :
        results[l].existed =>
            /\ ~results[l].fetched
            /\ ~results[l].opened
            /\ results[l].size = -1
            /\ results[l].ret = "false"

C5_Witness ==
    \E l \in DOMAIN results : results[l].existed /\ results[l].ret = "false"

\* C6: once all workers are joined, downloaded_files_sizes_mb has one entry
\* per save_file call that returned True and its sum is the sum of the sizes
\* those calls recorded.
C6_NoLostAppend ==
    mpc \in {"summary", "done"} =>
        /\ Len(downloaded_files_sizes_mb) = Cardinality(Succeeded)
        /\ SumSeq(downloaded_files_sizes_mb) = SumSizes(Succeeded)

C6_Witness ==
    /\ mpc = "done"
    /\ Len(thr) = 2
    /\ Cardinality(Succeeded) = 2
    /\ SumSeq(downloaded_files_sizes_mb) > 0

\* C7: from the moment main reads the statistics every worker thread has
\* ended, and nothing is appended to the statistics after the read.
C7_SummaryAfterJoin ==
    /\ mpc \in {"summary", "done"} => \A t \in Workers : thr[t].st = "dead"
    /\ summary # <<>> =>
           /\ summary[1].count = Len(downloaded_files_sizes_mb)
           /\ summary[1].total = SumSeq(downloaded_files_sizes_mb)

C7_Witness ==
    /\ summary # <<>>
    /\ Len(thr) = 2
    /\ summary[1].count >= 1

\* C8: for every link set and every outcome of the downloads, save_files
\* returns and main reaches the summary.
C8_SummaryReached == <>(mpc = "done")

C8_Witness ==
    /\ mpc = "done"
    /\ links0 # {}
    /\ downloaded_files_sizes_mb = <<>>
    /\ \E t \in Workers : thr[t].crashed
    /\ \E l \in links0 : results[l].oserr = "open"

\* C9: every link assigned to a batch is processed by save_file, whatever
\* the outcome of the links before it in the batch.
C9_AllLinksProcessed ==
    mpc = "done" => \A l \in links0 : results[l].called

\* C10: a save_file call in which opening or writing the output file raised
\* OSError returns False and appends nothing, and its worker goes on with the
\* batch.
C10_OSErrorIsFailure ==
    \A t \in Workers : \A p \in 1..Len(batches[t]) :
        LET r == results[batches[t][p]]
        IN  (r.oserr # "none" /\ r.ret # "none") =>
                /\ r.ret = "false"
                /\ r.size = -1
                /\ thr[t].idx > p


\* C11: save_files creates one thread per batch, the batches are never more
\* than the worker count, and fewer when there are fewer links than workers.
C11_WorkersAtMostThreads ==
    /\ mpc = "start" => Len(thr) = Len(batches)
    /\ mpc \in {"spawn", "start"} =>
           /\ Len(batches) <= threads_to_use
           /\ Cardinality(links0) < threads_to_use => Len(batches) < threads_to_use

C11_Witness ==
    /\ mpc = "start"
    /\ threads_to_use = THREADS_TO_USE
    /\ Len(thr) = THREADS_TO_USE
    /\ Cardinality(links0) > THREADS_TO_USE


\* s = ceil(n / t), stated without the operator the model computes it with
IsCeiling(s, n, t) == s * t >= n /\ (s - 1) * t < n

\* C12 as stated: draining with worker count n returns exactly n batches,
\* each of size at most ceil(|set| / n).
C12_ExactlyNBatches ==
    (mpc = "spawn" /\ links0 # {}) =>
        /\ Len(batches) = threads_to_use
        /\ \A b \in 1..Len(batches) :
               \E s \in 0..Cardinality(links0) :
                   IsCeiling(s, Cardinality(links0), threads_to_use) /\ Len(batches[b]) <= s

\* C12 amended: draining with worker count n returns at most n batches, none
\* of them empty: every batch but the last has exactly ceil(|set| / n)
\* elements and the last has between 1 and ceil(|set| / n).
C12_AtMostNBatches ==
    mpc = "spawn" =>
        /\ Len(batches) <= threads_to_use
        /\ \A b \in 1..Len(batches) :
               /\ Len(batches[b]) >= 1
               /\ IsCeiling(IF b < Len(batches) THEN Len(batches[b]) ELSE file_batch_size,
                            Cardinality(links0), threads_to_use)
               /\ Len(batches[b]) <= file_batch_size

C12_Witness ==
    /\ mpc = "spawn"
    /\ Len(batches) >= 2
    /\ Len(batches) < threads_to_use
    /\ Len(batches[Len(batches)]) < Len(batches[1])


\* C13: after any sequence of insertions captured_links has as many elements
\* as there are distinct values inserted, and inserting a value that is
\* present leaves the set unchanged.
C13_SetSemantics ==
    /\ [](Cardinality(captured_links) = Cardinality(Range(inserted)))
    /\ [][(/\ Len(inserted') = Len(inserted) + 1
           /\ inserted'[Len(inserted')] \in captured_links)
          => captured_links' = captured_links]_vars

C13_Witness ==
    /\ mode = "v"
    /\ Len(inserted) = 4
    /\ inserted[1] = inserted[3]
    /\ Cardinality(captured_links) = 2


\* C14: outside mode "s" the output file of a URL ending in a content id, an
\* optional suffix marker, an optional extension and an optional query string
\* or fragment is <id>.jpg fetched from the raw link when the raw link contains
\* ".jpg", and otherwise <id>.mp4 fetched from the API URL of the id; in mode
\* "s" the link value itself is the identifier.
C14_BareId ==
    \A l \in DOMAIN file_path :
        IF mode = "s"
        THEN file_path[l] \in {l \o ExtJpg, l \o ExtMp4}
        ELSE IF Contains(l, ExtJpg)
        THEN /\ file_path[l] = url_parts.id \o ExtJpg
             /\ true_url[l] = l
        ELSE /\ file_path[l] = url_parts.id \o ExtMp4
             /\ true_url[l] = ApiPrefix \o Lower(url_parts.id) \o ApiFiles
                                  \o url_parts.id \o ExtMp4


\* C15: while the fetch of a link whose output path did not exist is in
\* progress, save_file has not opened the output file and no file exists at
\* the path.
C15_FetchBeforeOpen ==
    \A t \in Workers :
        (Running(t) /\ thr[t].pc = "fetch" /\ ~LoopOver(t) /\ ~Res(t).existed) =>
            /\ ~Res(t).opened
            /\ Cardinality(links0) = 1 => ~files[PathOf(t)].exists

\* C16: an output path this run opened either does not exist or holds the
\* complete payload fetched for it, and a download that did not succeed leaves
\* no file at its path.
C16_AtomicWrite ==
    \A l \in DOMAIN results :
        LET f == files[file_path[l]]
        IN  /\ results[l].opened =>
                \/ ~f.exists
                \/ \E m \in DOMAIN results :
                       /\ file_path[m] = file_path[l]
                       /\ results[m].payload.kind = "bytes"
                       /\ f.data = results[m].payload.data
            /\ (Cardinality(links0) = 1 /\ ~results[l].existed
                    /\ results[l].ret \in {"false", "raised"}) => ~f.exists

InDifferentBatches(l, m) ==
    \E a, b \in 1..Len(batches) :
        a # b /\ l \in Range(batches[a]) /\ m \in Range(batches[b])

\* C17: when two distinct links of different batches derive the same file
\* name and both downloads succeed with no error of the file system, the file
\* holds in the end exactly the complete payload of one of the two.
C17_RaceKeepsOnePayload ==
    mpc = "done" =>
        \A l, m \in Succeeded :
            (/\ l # m
             /\ file_path[l] = file_path[m]
             /\ InDifferentBatches(l, m)
             /\ results[l].oserr = "none"
             /\ results[m].oserr = "none") =>
                files[file_path[l]].data \in
                    {results[l].payload.data, results[m].payload.data}

\* C18: safely_request_content stops at the first response that raised
\* nothing: after k failed attempts and a success it has made k + 1 requests,
\* k below MAX_REQUEST_RETRIES, holds the content of the last one, and makes no
\* further request.
C18_StopsAtFirstResponse ==
    \A t \in Workers :
        thr[t].successful =>
            /\ thr[t].requests = thr[t].exceptions + 1
            /\ thr[t].exceptions < MAX_REQUEST_RETRIES
            /\ thr[t].i = thr[t].requests
            /\ thr[t].content.kind = "bytes"

C18_Witness ==
    \E t \in Workers :
        /\ thr[t].successful
        /\ thr[t].exceptions = MAX_REQUEST_RETRIES - 1
        /\ thr[t].requests = MAX_REQUEST_RETRIES
        /\ Len(thr[t].content.data) = MaxPayloadLen

RECURSIVE SumPayloads(_)
SumPayloads(S) ==
    IF S = {} THEN 0
    ELSE LET l == CHOOSE x \in S : TRUE
         IN  Len(results[l].payload.data) + SumPayloads(S \ {l})

\* C19: the size appended for a write is the size of the complete payload
\* written, and the total read in the end is the sum of the payload sizes of
\* the successful downloads.
C19_SizeIsPayloadSize ==
    /\ \A l \in DOMAIN results :
           results[l].size # -1 => results[l].size = Len(results[l].payload.data)
    /\ mpc = "done" => SumSeq(downloaded_files_sizes_mb) = SumPayloads(Succeeded)

\* C20: after the join downloaded_files_sizes_mb has as many entries as there
\* are distinct output files written by the successful downloads of this run.
C20_OneEntryPerFile ==
    mpc = "done" =>
        Len(downloaded_files_sizes_mb) = Cardinality({file_path[l] : l \in Succeeded})

====
